---------------------------- MODULE Spec2Model ----------------------------
(***************************************************************************)
(* Model of the useTarotReader hook: the card boundary detector that runs  *)
(* in drawLoop, the debounce timer that keeps the last crop, the reference *)
(* database built by initializeMasterData, the identification run of       *)
(* performMatching, and the capture / exclusion / reset callbacks.         *)
(*                                                                         *)
(* The vision library is external.  Its results enter the model as inputs: *)
(* a frame is the list of contours findContours returns (area, simplified  *)
(* polygon), an image is an abstract pixel content whose ORB descriptors   *)
(* are given by a fixed table, and a binary descriptor is a set of         *)
(* weighted bit groups so that Hamming distances fall on both sides of the *)
(* thresholds of the code.                                                 *)
(***************************************************************************)
EXTENDS Integers, Sequences, FiniteSets, TLC

(***************************************************************************)
(* Bounds of the model.                                                    *)
(***************************************************************************)
MaxTime == 1500        \* the clock stops advancing here
MaxCount == 2          \* cap of rectDetectionCountRef
MaxBlacklist == 1      \* cap of the length of blacklist
MaxPending == 1        \* cap of the image loads that are outstanding

(***************************************************************************)
(* Program constants.                                                      *)
(***************************************************************************)
DebounceMs == 1000     \* setTimeout(..., 1000)
MinAreaFloor == 500    \* Math.max(500, allMaxArea * 0.5)
MinThreshold == 30     \* Math.max(30, minDistance * 2)
Infinity == 1000000    \* let minDistance = Infinity
Cos2Num == 11698       \* cos(70 deg)^2 = Cos2Num / Cos2Den on the grids used
Cos2Den == 100000
FrameW == 4            \* canvas.width  = video.videoWidth
FrameH == 4            \* canvas.height = video.videoHeight

NoTime == 0 - 1        \* null of lastDetectionTimeRef / detectionTimeoutRef

Min2(a, b) == IF a < b THEN a ELSE b
Max2(a, b) == IF a > b THEN a ELSE b
Range(s) == {s[i] : i \in 1..Len(s)}

(***************************************************************************)
(* sortRectanglePoints: four reduce calls, each keeping the first extreme. *)
(***************************************************************************)
RECURSIVE reduceMin(_, _, _)
reduceMin(keys, i, best) ==
    IF i > Len(keys) THEN best
    ELSE reduceMin(keys, i + 1, IF keys[i] < keys[best] THEN i ELSE best)

RECURSIVE reduceMax(_, _, _)
reduceMax(keys, i, best) ==
    IF i > Len(keys) THEN best
    ELSE reduceMax(keys, i + 1, IF keys[i] > keys[best] THEN i ELSE best)

sortRectanglePoints(points) ==
    IF Len(points) # 4 THEN points
    ELSE LET sum  == [i \in 1..4 |-> points[i].x + points[i].y]
             diff == [i \in 1..4 |-> points[i].x - points[i].y]
             leftTop     == points[reduceMin(sum, 1, 1)]
             rightBottom == points[reduceMax(sum, 1, 1)]
             rightTop    == points[reduceMax(diff, 1, 1)]
             leftBottom  == points[reduceMin(diff, 1, 1)]
         IN  <<leftTop, rightTop, rightBottom, leftBottom>>

(***************************************************************************)
(* checkRectangleShape.  Lengths are kept squared: for a <= b,             *)
(* sqrt(a)/sqrt(b) < 0.9 iff 100a < 81b, and sqrt(a)/sqrt(b) is outside    *)
(* [0.5, 2] iff 4a < b or a > 4b.  An angle is outside [70, 110] degrees   *)
(* iff dot^2 > cos(70)^2 * len1^2 * len2^2.  A quotient 0/0 is NaN, and    *)
(* every comparison with NaN is false, so that test does not reject.       *)
(***************************************************************************)
Dist2(p, q) == (q.x - p.x) * (q.x - p.x) + (q.y - p.y) * (q.y - p.y)

Wrap4(i) == ((i - 1) % 4) + 1

\* variant: opposite sides may differ by a factor of two
oppositeRatioHalf(a, b) ==
    LET lo == Min2(a, b)
        hi == Max2(a, b)
    IN  IF hi = 0 THEN FALSE ELSE 4 * lo < hi

oppositeRatioLow(a, b) ==
    LET lo == Min2(a, b)
        hi == Max2(a, b)
    IN  IF hi = 0 THEN FALSE ELSE 100 * lo < 81 * hi

aspectRatioBad(width2, height2) ==
    IF height2 = 0 THEN width2 > 0
    ELSE 4 * width2 < height2 \/ width2 > 4 * height2

\* variant: the angle may be 45 degrees off the right angle
angleBadWide(p1, p2, p3) ==
    LET v1x == p2.x - p1.x
        v1y == p2.y - p1.y
        v2x == p3.x - p2.x
        v2y == p3.y - p2.y
        dot == v1x * v2x + v1y * v2y
        l2  == (v1x * v1x + v1y * v1y) * (v2x * v2x + v2y * v2y)
    IN  IF l2 = 0 THEN FALSE ELSE dot * dot * 2 > l2

angleBad(p1, p2, p3) ==
    LET v1x == p2.x - p1.x
        v1y == p2.y - p1.y
        v2x == p3.x - p2.x
        v2y == p3.y - p2.y
        dot == v1x * v2x + v1y * v2y
        l2  == (v1x * v1x + v1y * v1y) * (v2x * v2x + v2y * v2y)
    IN  IF l2 = 0 THEN FALSE ELSE dot * dot * Cos2Den > Cos2Num * l2

checkRectangleShape(points) ==
    IF Len(points) # 4 THEN FALSE
    ELSE LET distances == [i \in 1..4 |-> Dist2(points[i], points[Wrap4(i + 1)])]
         IN  IF oppositeRatioLow(distances[1], distances[3])
                  \/ oppositeRatioLow(distances[2], distances[4])
             THEN FALSE
             ELSE IF aspectRatioBad(Max2(distances[1], distances[3]),
                                    Max2(distances[2], distances[4]))
             THEN FALSE
             ELSE \A i \in 1..4 :
                      ~angleBad(points[i], points[Wrap4(i + 1)], points[Wrap4(i + 2)])

(***************************************************************************)
(* Binary descriptors and BFMatcher(NORM_HAMMING, crossCheck = false).     *)
(* A descriptor is the set of its bit groups that are set; group g has     *)
(* GroupBits(g) bits, so the Hamming distance of two descriptors is the    *)
(* number of bits in the groups on which they differ.                      *)
(***************************************************************************)
BitGroups == 1..4

GroupBits(g) == CASE g = 1 -> 10 [] g = 2 -> 20 [] g = 3 -> 40 [] OTHER -> 80

RECURSIVE sumBits(_)
sumBits(groups) ==
    IF groups = {} THEN 0
    ELSE LET g == CHOOSE x \in groups : TRUE
         IN  GroupBits(g) + sumBits(groups \ {g})

hammingDistance(a, b) == sumBits((a \ b) \cup (b \ a))

RECURSIVE nearestDistance(_, _, _, _)
nearestDistance(q, train, i, best) ==
    IF i > Len(train) THEN best
    ELSE nearestDistance(q, train, i + 1, Min2(best, hammingDistance(q, train[i])))

\* matcher.match(descriptors, masterImage.descriptors, matches): one best
\* match per query descriptor, none when the train set is empty.
matcherMatch(query, train) ==
    IF Len(train) = 0 THEN << >>
    ELSE [i \in 1..Len(query) |-> nearestDistance(query[i], train, 1, Infinity)]

RECURSIVE minDistanceLoop(_, _, _)
minDistanceLoop(matches, i, minDistance) ==
    IF i > Len(matches) THEN minDistance
    ELSE minDistanceLoop(matches, i + 1,
             IF matches[i] < minDistance THEN matches[i] ELSE minDistance)

\* variant: the threshold has no floor
ratioThreshold(minDistance) == minDistance * 2

\* const threshold = Math.max(30, minDistance * 2)
matchThreshold(minDistance) == Max2(MinThreshold, minDistance * 2)

\* variant: a match at the threshold is a good match
isGoodMatchInclusive(distance, threshold) == distance <= threshold

\* if (match.distance < threshold)
isGoodMatch(distance, threshold) == distance < threshold

RECURSIVE goodMatchLoop(_, _, _, _)
goodMatchLoop(matches, i, threshold, count) ==
    IF i > Len(matches) THEN count
    ELSE goodMatchLoop(matches, i + 1, threshold,
             IF isGoodMatch(matches[i], threshold) THEN count + 1 ELSE count)

goodMatchCount(query, train) ==
    LET matches     == matcherMatch(query, train)
        minDistance == minDistanceLoop(matches, 1, Infinity)
        threshold   == matchThreshold(minDistance)
    IN  goodMatchLoop(matches, 1, threshold, 0)

\* variant: the score of the last image is taken without comparing
lastScore(maxScore, goodCount) == goodCount

\* the update of maxScore for one reference image
bestScore(maxScore, goodCount) == IF goodCount > maxScore THEN goodCount ELSE maxScore

\* the loop over master.images: images is a sequence of descriptor sequences
RECURSIVE cardScoreLoop(_, _, _, _)
cardScoreLoop(query, images, imgIndex, maxScore) ==
    IF imgIndex > Len(images) THEN maxScore
    ELSE cardScoreLoop(query, images, imgIndex + 1,
             bestScore(maxScore, goodMatchCount(query, images[imgIndex])))

cardScore(query, images) == cardScoreLoop(query, images, 1, 0)

(***************************************************************************)
(* Array.prototype.sort with the comparator (a, b) => b - a: a stable sort *)
(* into non-increasing score order.  entries is a sequence of records with *)
(* a field matchCount.                                                     *)
(***************************************************************************)
\* variant: equal scores are swapped as well
scoreBeforeOrEqual(a, b) == a.matchCount >= b.matchCount

\* whether the comparator puts entry a strictly before entry b
scoreBefore(a, b) == a.matchCount > b.matchCount

RECURSIVE insertSorted(_, _)
insertSorted(sorted, e) ==
    IF Len(sorted) = 0 THEN <<e>>
    ELSE IF scoreBefore(e, sorted[Len(sorted)])
         THEN Append(insertSorted(SubSeq(sorted, 1, Len(sorted) - 1), e),
                     sorted[Len(sorted)])
         ELSE Append(sorted, e)

RECURSIVE sortByScore(_)
sortByScore(entries) ==
    IF Len(entries) = 0 THEN << >>
    ELSE insertSorted(sortByScore(SubSeq(entries, 1, Len(entries) - 1)),
                      entries[Len(entries)])

(***************************************************************************)
(* Images.  An image is a record: what it is a picture of (content), how   *)
(* it was produced (kind) and, for a crop, the rectangle cut out of the    *)
(* canvas.  detectAndCompute is a function of the pixels: the descriptors  *)
(* of an image are given by its content.                                   *)
(***************************************************************************)
WholeFrame == <<0, 0, FrameW, FrameH>>

NoImage == [kind |-> "none", content |-> 0, rect |-> <<0, 0, 0, 0>>]

BlankCanvas == [kind |-> "blank", content |-> 0, rect |-> WholeFrame]

frameImage(content) == [kind |-> "frame", content |-> content, rect |-> WholeFrame]

cropImage(content, rect) == [kind |-> "crop", content |-> content, rect |-> rect]

\* orb.detectAndCompute(gray, mask, keypoints, descriptors)
ImageDescriptors(content) ==
    CASE content = 1 -> << {}, {1}, {2, 4} >>
      [] content = 2 -> << {1}, {3, 4} >>
      [] content = 3 -> << {3} >>
      [] OTHER       -> << >>

(***************************************************************************)
(* The reference database input: master-list.json, in Object.keys order.   *)
(* Each file is named by the content of the image it holds.                *)
(***************************************************************************)
MasterList ==
    << [cardName |-> "FOOL",     files |-> <<1>>],
       [cardName |-> "MAGICIAN", files |-> <<2, 3>>],
       [cardName |-> "ACE",      files |-> <<1>>] >>

CardIds == 1..Len(MasterList)

Tasks == {t \in CardIds \X (1..2) : t[2] <= Len(MasterList[t[1]].files)}

\* CARD_DISPLAY_NAMES[cardName] || cardName
displayNameOf(cardName) ==
    CASE cardName = "FOOL"     -> "THE FOOL"
      [] cardName = "MAGICIAN" -> "THE MAGICIAN"
      [] OTHER                 -> cardName

DisplayNames == {displayNameOf(MasterList[c].cardName) : c \in CardIds}

NoReport == [successCount |-> 0 - 1, totalCount |-> 0 - 1]

NoRect == [points |-> << >>, area |-> 0]

NoCycle == [approxSize |-> 0, isValid |-> FALSE]

VARIABLES
    isCvLoaded,          \* useState: OpenCV.js is initialised
    refsAttached,        \* canvasRef.current and videoRef.current are set
    now,                 \* Date.now(), in ms
    pendingTicks,        \* the calls of drawLoop that are due (animation frames)
    mounted,             \* the component that uses the hook is mounted
    buildPhase,          \* initializeMasterData: idle, fetching, loading, done, failed
    taskState,           \* loadMasterImage promise of each file: pending, ok, failed
    masterDataMap,       \* masterDataMapRef.current, in insertion order
    isMasterReady,       \* useState
    report,              \* successCount / totalCount of the completion log line
    detectedRect,        \* useState
    detectedRectImage,   \* useState: the held crop
    rectDetectionCount,  \* rectDetectionCountRef.current
    lastDetectionTime,   \* lastDetectionTimeRef.current
    detectionTimeout,    \* detectionTimeoutRef.current: the deadline of the pending timer
    timers,              \* the deadlines of the setTimeout timers that are pending
    canvasImage,         \* what the canvas shows (canvas.toDataURL)
    rectCycle,           \* history: the polygon test results of the cycle that set detectedRect
    hasSavedImage,       \* useState
    savedImage,          \* localStorage[STORAGE_KEY] and savedImageRef.current
    savedImageElement,   \* savedImageElementRef.current
    elementLoads,        \* images whose onload (saved image element) is outstanding
    pendingImages,       \* capture images whose onload (performMatching) is outstanding
    candidates,          \* useState: the raw ranked list
    blacklist,           \* useState
    isAnalyzing,         \* useState
    exposed,             \* candidates of the hook's return value at the last render
    mQuery,              \* scoring study: the capture's descriptors
    mImages,             \* scoring study: the reference images of one identity
    mScore,              \* scoring study: cardScore(mQuery, mImages)
    qPoints,             \* geometry study: the points of approx
    qValid,              \* geometry study: isValidRectangle, once computed
    qSorted,             \* geometry study: the result of the last ordering
    qPasses,             \* geometry study: how often the points were ordered
    memLive,             \* memory study: the vision-library objects that are live
    memCall,             \* memory study: the last call of drawLoop or performMatching
    cContours,           \* contour study: the contours of one frame
    cLargest             \* contour study: the index of largestContour, once selected

envVars == <<isCvLoaded, refsAttached, now, pendingTicks, mounted>>
buildVars == <<buildPhase, taskState, masterDataMap, isMasterReady, report>>
detectVars == <<detectedRect, detectedRectImage, rectDetectionCount,
                lastDetectionTime, detectionTimeout, timers, canvasImage,
                rectCycle>>
captureVars == <<hasSavedImage, savedImage, savedImageElement, elementLoads,
                 pendingImages>>
resultVars == <<candidates, blacklist, isAnalyzing, exposed>>
contourVars == <<cContours, cLargest>>
studyVars == <<mQuery, mImages, mScore, qPoints, qValid, qSorted, qPasses,
               memLive, memCall, contourVars>>
vars == <<envVars, buildVars, detectVars, captureVars, resultVars, studyVars>>

(***************************************************************************)
(* The state after the first call of the hook: nothing loaded, nothing     *)
(* detected, useRef(null) for the canvas and the video.                    *)
(***************************************************************************)
HookInit ==
    /\ isCvLoaded = FALSE
    /\ refsAttached = FALSE
    /\ now = 0
    /\ pendingTicks = 0
    /\ mounted = TRUE
    /\ buildPhase = "idle"
    /\ taskState = [t \in Tasks |-> "pending"]
    /\ masterDataMap = << >>
    /\ isMasterReady = FALSE
    /\ report = NoReport
    /\ detectedRect = NoRect
    /\ detectedRectImage = NoImage
    /\ rectDetectionCount = 0
    /\ lastDetectionTime = NoTime
    /\ detectionTimeout = NoTime
    /\ timers = {}
    /\ canvasImage = BlankCanvas
    /\ rectCycle = NoCycle
    /\ hasSavedImage = FALSE
    /\ savedImage = NoImage
    /\ savedImageElement = NoImage
    /\ elementLoads = {}
    /\ pendingImages = << >>
    /\ candidates = << >>
    /\ blacklist = << >>
    /\ isAnalyzing = FALSE
    /\ exposed = << >>

GeometryIdle ==
    /\ qPoints = << >>
    /\ qValid = "unchecked"
    /\ qSorted = << >>
    /\ qPasses = 0

NoCall == [handler |-> "none", shape |-> 0, throwAt |-> 0]

MemoryIdle ==
    /\ memLive = 0
    /\ memCall = NoCall

Unselected == 0 - 1

ContourIdle ==
    /\ cContours = << >>
    /\ cLargest = Unselected

StudyIdle ==
    /\ mQuery = << >>
    /\ mImages = << >>
    /\ mScore = 0
    /\ GeometryIdle
    /\ MemoryIdle
    /\ ContourIdle

Init == HookInit /\ StudyIdle

(***************************************************************************)
(* OpenCV.js becomes ready: setIsCvLoaded(true).  The effect that depends  *)
(* on isCvLoaded then starts initializeMasterData, which fetches the list. *)
(***************************************************************************)
\* the effect on [isCvLoaded, drawLoop] runs again: its cleanup cancels the
\* animation frame animationFrameRef holds, which is the last one requested
\* and so pending if any is, then drawLoop() is called if isCvLoaded.  The
\* call is counted as a tick that is due.
effectRestart(pending, cvLoaded) ==
    (IF pending > 0 THEN pending - 1 ELSE 0) + (IF cvLoaded THEN 1 ELSE 0)

CvLoaded ==
    /\ ~isCvLoaded
    /\ isCvLoaded' = TRUE
    /\ pendingTicks' = effectRestart(pendingTicks, TRUE)
    /\ buildPhase' = "fetching"
    /\ UNCHANGED <<refsAttached, now, mounted>>
    /\ UNCHANGED <<taskState, masterDataMap, isMasterReady, report>>
    /\ UNCHANGED <<detectVars, captureVars, resultVars, studyVars>>

\* the caller's canvas and video elements are committed: React sets
\* canvasRef.current and videoRef.current
AttachRefs ==
    /\ ~refsAttached
    /\ refsAttached' = TRUE
    /\ UNCHANGED <<isCvLoaded, now, pendingTicks, mounted>>
    /\ UNCHANGED <<buildVars, detectVars, captureVars, resultVars, studyVars>>

\* fetch('/lib/master-list.json') settles: on success every loadMasterImage
\* task is started, on failure the catch block logs and nothing is loaded.
FetchList(ok) ==
    /\ buildPhase = "fetching"
    /\ buildPhase' = IF ok THEN "loading" ELSE "failed"
    /\ UNCHANGED <<taskState, masterDataMap, isMasterReady, report>>
    /\ UNCHANGED <<envVars, detectVars, captureVars, resultVars, studyVars>>

(***************************************************************************)
(* One loadMasterImage promise resolves (img.onload with or without an     *)
(* exception, or img.onerror).  The promise continuations run as           *)
(* microtasks before any other task: loadCardImages of the card when its   *)
(* last image has settled, then initializeMasterData when the last card    *)
(* has settled.                                                            *)
(***************************************************************************)
\* Promise.all(loadPromises) of one card: settled when each image is
cardSettled(ts, c) == \A i \in 1..Len(MasterList[c].files) : ts[<<c, i>>] # "pending"

\* variant: the join resolves with the first card (Promise.race)
anySettled(ts) == \E c \in CardIds : cardSettled(ts, c)

\* Promise.all(cardLoadPromises)
allSettled(ts) == \A c \in CardIds : cardSettled(ts, c)

\* results.filter(r => r !== null), as indices of the card's files
RECURSIVE filterLoaded(_, _, _)
filterLoaded(ts, c, i) ==
    IF i > Len(MasterList[c].files) THEN << >>
    ELSE IF ts[<<c, i>>] = "ok"
         THEN <<ImageDescriptors(MasterList[c].files[i])>> \o filterLoaded(ts, c, i + 1)
         ELSE filterLoaded(ts, c, i + 1)

\* variant: one failed image rejects the whole card
loadAllOrNothing(ts, c) ==
    IF \E i \in 1..Len(MasterList[c].files) : ts[<<c, i>>] = "failed" THEN << >>
    ELSE filterLoaded(ts, c, 1)

loadCardImages(ts, c) == filterLoaded(ts, c, 1)

\* the body of the cardLoadPromises callback after loadCardImages resolved
cardLoaded(map, ts, c) ==
    LET imageDataArray == loadCardImages(ts, c)
    IN  IF Len(imageDataArray) > 0
        THEN Append(map, [cardName    |-> MasterList[c].cardName,
                          displayName |-> displayNameOf(MasterList[c].cardName),
                          images      |-> imageDataArray])
        ELSE map

\* variant: the tally counts images instead of cards
successImagesOf(ts) == Cardinality({t \in Tasks : ts[t] = "ok"})

\* results.filter(r => r).length: a card's promise resolved true when it
\* had at least one image
successCountOf(ts) ==
    Cardinality({c \in CardIds : Len(loadCardImages(ts, c)) > 0})

masterReady(successCount) == successCount > 0

ImageTaskSettle(c, i, ok) ==
    /\ buildPhase = "loading"
    /\ <<c, i>> \in Tasks
    /\ taskState[<<c, i>>] = "pending"
    /\ LET ts  == [taskState EXCEPT ![<<c, i>>] = IF ok THEN "ok" ELSE "failed"]
           map == IF cardSettled(ts, c) THEN cardLoaded(masterDataMap, ts, c)
                  ELSE masterDataMap
       IN  /\ taskState' = ts
           /\ masterDataMap' = map
           /\ IF allSettled(ts)
              THEN /\ buildPhase' = "done"
                   /\ report' = [successCount |-> successCountOf(ts),
                                 totalCount   |-> Len(MasterList)]
                   /\ isMasterReady' = masterReady(successCountOf(ts))
              ELSE UNCHANGED <<buildPhase, report, isMasterReady>>
    /\ UNCHANGED <<envVars, detectVars, captureVars, resultVars, studyVars>>

(***************************************************************************)
(* drawLoop: one tick.  A frame is what the video and the vision library   *)
(* deliver in the tick:                                                    *)
(*   video    "notReady" (readyState is not 4), "zeroSize", "imreadFail"   *)
(*            or "ok"                                                      *)
(*   throws   "none", "contour" (a step of the inner try block throws) or  *)
(*            "outer" (a step before it throws)                            *)
(*   content  what the frame shows                                         *)
(*   contours the external contours of the dilated edge map, each with its *)
(*            contourArea and the polygon approxPolyDP returns for it      *)
(***************************************************************************)
RECURSIVE allMaxAreaLoop(_, _, _)
allMaxAreaLoop(contours, i, allMaxArea) ==
    IF i > Len(contours) THEN allMaxArea
    ELSE allMaxAreaLoop(contours, i + 1,
             IF contours[i].area > allMaxArea THEN contours[i].area ELSE allMaxArea)

\* variant: the floor is half the largest area alone
meetsHalfOnly(area, allMaxArea) == 2 * area >= allMaxArea

\* area >= Math.max(500, allMaxArea * 0.5), both sides doubled
meetsMinArea(area, allMaxArea) == 2 * area >= Max2(2 * MinAreaFloor, allMaxArea)

\* variant: a contour as large as the best so far replaces it
atLeastBest(area, maxArea) == area >= maxArea

\* area > maxArea
largerThanBest(area, maxArea) == area > maxArea

\* the second loop: the index of largestContour, 0 when it stays null
RECURSIVE largestContourLoop(_, _, _, _, _)
largestContourLoop(contours, i, allMaxArea, maxArea, largest) ==
    IF i > Len(contours) THEN largest
    ELSE IF /\ largerThanBest(contours[i].area, maxArea)
            /\ meetsMinArea(contours[i].area, allMaxArea)
         THEN largestContourLoop(contours, i + 1, allMaxArea, contours[i].area, i)
         ELSE largestContourLoop(contours, i + 1, allMaxArea, maxArea, largest)

largestContour(contours) ==
    largestContourLoop(contours, 1, allMaxAreaLoop(contours, 1, 0), 0, 0)

\* variant: the shape check result is ignored
acceptAnyQuad(approxSize, isValidRectangle) == approxSize = 4

\* if (approxSize === 4) ... if (isValidRectangle) detectedRectData = {...}
acceptQuad(approxSize, isValidRectangle) == approxSize = 4 /\ isValidRectangle

RECURSIVE minOf(_, _, _)
minOf(vals, i, best) ==
    IF i > Len(vals) THEN best ELSE minOf(vals, i + 1, Min2(best, vals[i]))

RECURSIVE maxOf(_, _, _)
maxOf(vals, i, best) ==
    IF i > Len(vals) THEN best ELSE maxOf(vals, i + 1, Max2(best, vals[i]))

\* the crop rectangle <<minX, minY, maxX, maxY>>: the bounding box of the
\* points clamped to the canvas (the points are integers: floor and ceil
\* leave them as they are)
\* variant: the box is spanned by the left-top and the right-bottom point
cropRectDiagonal(points) ==
    << Max2(0, points[1].x), Max2(0, points[1].y),
       Min2(FrameW, points[3].x), Min2(FrameH, points[3].y) >>

\* minX, minY, maxX, maxY of the crop
cropRect(points) ==
    LET xs == [i \in 1..Len(points) |-> points[i].x]
        ys == [i \in 1..Len(points) |-> points[i].y]
    IN  << Max2(0, minOf(xs, 1, xs[1])),
           Max2(0, minOf(ys, 1, ys[1])),
           Min2(FrameW, maxOf(xs, 1, xs[1])),
           Min2(FrameH, maxOf(ys, 1, ys[1])) >>

\* variant: crops of less than 3 pixels are not taken
cropUsableLarge(rect) == rect[3] - rect[1] > 2 /\ rect[4] - rect[2] > 2

\* cropCtx && width > 0 && height > 0
cropUsable(rect) == rect[3] - rect[1] > 0 /\ rect[4] - rect[2] > 0

\* variant: a pending timer is left running instead of being replaced
keepTimer(pending, time) == IF pending # NoTime THEN pending ELSE time + DebounceMs

\* clearTimeout(detectionTimeoutRef.current) if one is pending, then
\* setTimeout(..., 1000): the deadline of the one timer pending afterwards
rearmTimer(pending, time) == time + DebounceMs

\* variant: the pending timer is not cancelled
timersKept(pendingTimers, pending, time) == pendingTimers \cup {time + DebounceMs}

\* the timers pending after clearTimeout(detectionTimeoutRef.current), if
\* the ref is set, and setTimeout(..., 1000)
timersAfterArm(pendingTimers, pending, time) ==
    (pendingTimers \ {pending}) \cup {time + DebounceMs}

\* what one detection pass over the contours of a frame yields
detectionOf(frame) ==
    LET sel        == largestContour(frame.contours)
        approx     == IF sel = 0 THEN << >> ELSE frame.contours[sel].approx
        approxSize == Len(approx)
        isValid    == checkRectangleShape(approx)
        accepted   == sel # 0 /\ acceptQuad(approxSize, isValid)
        points     == IF accepted THEN sortRectanglePoints(approx) ELSE << >>
    IN  [sel        |-> sel,
         approxSize |-> approxSize,
         isValid    |-> isValid,
         accepted   |-> accepted,
         rect       |-> IF accepted
                        THEN [points |-> points, area |-> frame.contours[sel].area]
                        ELSE NoRect,
         crop       |-> IF accepted THEN cropRect(points) ELSE <<0, 0, 0, 0>>]

(***************************************************************************)
(* The frames the camera delivers.                                         *)
(***************************************************************************)
Pt(x, y) == [x |-> x, y |-> y]

Square   == <<Pt(0, 0), Pt(3, 0), Pt(3, 3), Pt(0, 3)>>
Diamond  == <<Pt(1, 0), Pt(2, 1), Pt(1, 2), Pt(0, 1)>>
Skewed   == <<Pt(0, 0), Pt(3, 0), Pt(3, 1), Pt(0, 3)>>
Triangle == <<Pt(0, 0), Pt(3, 0), Pt(0, 3)>>

Polys == {Square, Diamond, Skewed, Triangle}

contour(area, approx) == [area |-> area, approx |-> approx]

\* the contour lists of the frames: none, one contour of each shape, a
\* contour under the absolute floor, and pairs in which the floor decides
ContourLists ==
    {<< >>}
    \cup {<<contour(1300, p)>> : p \in Polys}
    \cup { <<contour(400, Square)>>,
           <<contour(600, Skewed), contour(1300, Square)>>,
           <<contour(1300, Triangle), contour(600, Square)>>,
           <<contour(1300, Skewed), contour(600, Square)>> }

okFrame(content, contours) ==
    [video |-> "ok", throws |-> "none", content |-> content, contours |-> contours]

\* frames in which no detection pass completes
FailedFrames ==
    {[video |-> v, throws |-> "none", content |-> 1, contours |-> << >>] :
        v \in {"notReady", "zeroSize", "imreadFail"}}
    \cup {[video |-> "ok", throws |-> t, content |-> 1, contours |-> << >>] :
        t \in {"contour", "outer"}}

Frames == FailedFrames
            \cup {okFrame(1, l) : l \in ContourLists}

\* frames without any contour: the canvas changes, nothing is detected
PlainFrames == {okFrame(1, << >>)}

\* frames of a session: two scenes, nothing detected
SessionFrames == {okFrame(1, << >>), okFrame(2, << >>)}

\* the detection pass of every frame, computed once
detectionTable == [frame \in Frames \cup SessionFrames |-> detectionOf(frame)]

\* rectDetectionCountRef after the pass: += 1 on an accepted quad, = 0 when
\* no contour is selected or the polygon has not 4 vertices, unchanged when
\* only the shape check fails
countAfter(count, det) ==
    IF det.sel = 0 THEN 0
    ELSE IF det.approxSize # 4 THEN 0
    ELSE IF det.isValid THEN count + 1
    ELSE count

\* the exit path a tick takes
exitPath(frame, showsSaved) ==
    IF showsSaved THEN "saved"
    ELSE IF frame.video # "ok" THEN frame.video
    ELSE IF frame.throws # "none" THEN "caught"
    ELSE "done"

\* variant: the early return on a zero-sized frame requests no frame
requestsUnlessEmpty(path) == IF path = "zeroSize" THEN 0 ELSE 1

\* the calls of requestAnimationFrame(drawLoop) on an exit path
requestsOnExit(path) == 1

Tick(frame) ==
    /\ isCvLoaded
    /\ refsAttached
    /\ pendingTicks > 0
    /\ pendingTicks' = pendingTicks - 1
          + requestsOnExit(exitPath(frame, hasSavedImage /\ savedImageElement # NoImage))
    /\ IF hasSavedImage /\ savedImageElement # NoImage
       THEN \* the saved image is drawn; no detection runs
            /\ canvasImage' = savedImageElement
            /\ UNCHANGED <<detectedRect, detectedRectImage, rectDetectionCount,
                           lastDetectionTime, detectionTimeout, timers, rectCycle>>
       ELSE IF frame.video = "notReady"
       THEN UNCHANGED detectVars
       ELSE IF frame.video # "ok"
       THEN \* early return after ctx.drawImage(video, ...)
            /\ canvasImage' = IF frame.video = "zeroSize" THEN BlankCanvas
                              ELSE frameImage(frame.content)
            /\ UNCHANGED <<detectedRect, detectedRectImage, rectDetectionCount,
                           lastDetectionTime, detectionTimeout, timers, rectCycle>>
       ELSE IF frame.throws # "none"
       THEN \* either catch block: no detection, the counter is reset
            /\ canvasImage' = frameImage(frame.content)
            /\ detectedRect' = NoRect
            /\ rectCycle' = NoCycle
            /\ rectDetectionCount' = 0
            /\ UNCHANGED <<detectedRectImage, lastDetectionTime, detectionTimeout,
                           timers>>
       ELSE LET det == detectionTable[frame]
            IN  /\ det.accepted => rectDetectionCount < MaxCount
                /\ canvasImage' = frameImage(frame.content)
                /\ detectedRect' = det.rect
                /\ rectCycle' = [approxSize |-> det.approxSize, isValid |-> det.isValid]
                /\ rectDetectionCount' = countAfter(rectDetectionCount, det)
                /\ IF det.accepted /\ cropUsable(det.crop)
                   THEN /\ detectedRectImage' = cropImage(frame.content, det.crop)
                        /\ lastDetectionTime' = now
                        /\ detectionTimeout' = rearmTimer(detectionTimeout, now)
                        /\ timers' = timersAfterArm(timers, detectionTimeout, now)
                   ELSE UNCHANGED <<detectedRectImage, lastDetectionTime,
                                    detectionTimeout, timers>>
    /\ UNCHANGED <<isCvLoaded, refsAttached, now, mounted>>
    /\ UNCHANGED <<buildVars, captureVars, resultVars, studyVars>>

(***************************************************************************)
(* The debounce timer fires: the callback given to setTimeout.  A timer    *)
(* fires when the clock reaches its deadline, and the clock does not pass  *)
(* the deadline of a pending timer.                                        *)
(***************************************************************************)
Expire ==
    /\ \E t \in timers : now >= t /\ timers' = timers \ {t}
    /\ detectedRectImage' = NoImage
    /\ lastDetectionTime' = NoTime
    /\ detectionTimeout' = NoTime
    /\ UNCHANGED <<detectedRect, rectDetectionCount, canvasImage, rectCycle>>
    /\ UNCHANGED <<envVars, buildVars, captureVars, resultVars, studyVars>>

Advance(d) ==
    /\ now + d <= MaxTime
    /\ \A t \in timers : now < t
    /\ now' = IF \E t \in timers : t <= now + d
              THEN CHOOSE t \in timers : \A u \in timers : t <= u
              ELSE now + d
    /\ UNCHANGED <<isCvLoaded, refsAttached, pendingTicks, mounted>>
    /\ UNCHANGED <<buildVars, detectVars, captureVars, resultVars, studyVars>>

(***************************************************************************)
(* The render: filteredCandidates = candidates.filter(c =>                 *)
(* !blacklist.includes(c.cardName)).                                       *)
(***************************************************************************)
\* variant: a second exclusion of a name takes the first back
includesOdd(list, name) == Cardinality({i \in 1..Len(list) : list[i] = name}) % 2 = 1

\* blacklist.includes(c.cardName)
includes(list, name) == \E i \in 1..Len(list) : list[i] = name

RECURSIVE filterLoop(_, _, _)
filterLoop(cands, list, i) ==
    IF i > Len(cands) THEN << >>
    ELSE IF ~includes(list, cands[i].cardName)
         THEN <<cands[i]>> \o filterLoop(cands, list, i + 1)
         ELSE filterLoop(cands, list, i + 1)

\* variant: the render returns the raw list
noFilter(cands, list) == cands

filteredCandidates(cands, list) == filterLoop(cands, list, 1)

(***************************************************************************)
(* performMatching.                                                        *)
(***************************************************************************)
\* the guard of performMatching: the call is refused
matchingRefused(cvLoaded, map) == ~cvLoaded \/ Len(map) = 0

\* variant: only the identities that scored are entered
matchResultsScored(query, map) ==
    SelectSeq([k \in 1..Len(map) |->
                  [cardName   |-> map[k].cardName,
                   matchCount |-> cardScore(query, map[k].images)]],
              LAMBDA r : r.matchCount > 0)

\* the loop over masterDataMapRef.current.entries(): matchResults
matchResults(query, map) ==
    [k \in 1..Len(map) |->
        [cardName   |-> map[k].cardName,
         matchCount |-> cardScore(query, map[k].images)]]

\* master?.displayName || cardName
RECURSIVE displayNameIn(_, _, _)
displayNameIn(map, cardName, k) ==
    IF k > Len(map) THEN cardName
    ELSE IF map[k].cardName = cardName THEN map[k].displayName
    ELSE displayNameIn(map, cardName, k + 1)

sortedCandidates(query, map) ==
    LET sorted == sortByScore(matchResults(query, map))
    IN  [k \in 1..Len(sorted) |->
            [cardName   |-> displayNameIn(map, sorted[k].cardName, 1),
             matchCount |-> sorted[k].matchCount]]

\* variant: a run that throws leaves the candidates as they were
candidatesKept(cands, cvLoaded, map, img, throws) ==
    IF matchingRefused(cvLoaded, map) THEN cands
    ELSE IF throws THEN cands
    ELSE sortedCandidates(ImageDescriptors(img.content), map)

\* the candidates state after performMatching(img)
candidatesAfter(cands, cvLoaded, map, img, throws) ==
    IF matchingRefused(cvLoaded, map) THEN cands
    ELSE IF throws THEN << >>
    ELSE sortedCandidates(ImageDescriptors(img.content), map)

\* variant: only the successful path clears the flag
analyzingUnlessThrown(analyzing, cvLoaded, map, throws) ==
    IF matchingRefused(cvLoaded, map) THEN analyzing ELSE throws

\* the isAnalyzing state after performMatching(img): the guard returns
\* before setIsAnalyzing(true); the finally block ends with
\* setIsAnalyzing(false) on the successful and on the exception path
analyzingAfter(analyzing, cvLoaded, map, throws) ==
    IF matchingRefused(cvLoaded, map) THEN analyzing
    ELSE LET started  == TRUE
             finished == FALSE
         IN  IF throws THEN finished ELSE finished

(***************************************************************************)
(* captureImage.                                                           *)
(***************************************************************************)
\* variant: the capture always takes the canvas
captureCanvas(crop, canvas) == canvas

\* imageData: the held crop if there is one, else canvas.toDataURL
captureSource(crop, canvas) == IF crop # NoImage THEN crop ELSE canvas

\* variant: the capture is never refused
captureAlways(refs, cvLoaded) == FALSE

\* if (!canvasRef.current || !videoRef.current || !isCvLoaded) return
captureRefused(refs, cvLoaded) == ~refs \/ ~cvLoaded

Capture ==
    /\ ~captureRefused(refsAttached, isCvLoaded)
    /\ LET imageData == captureSource(detectedRectImage, canvasImage)
       IN  /\ savedImage' = imageData
           /\ hasSavedImage' = TRUE
           /\ pendingImages' = Append(pendingImages, imageData)
           \* the effect on hasSavedImage loads the saved image element
           /\ elementLoads' = IF ~hasSavedImage /\ savedImageElement = NoImage
                              THEN elementLoads \cup {imageData}
                              ELSE elementLoads
    /\ pendingTicks' = IF ~hasSavedImage THEN effectRestart(pendingTicks, isCvLoaded)
                       ELSE pendingTicks
    /\ UNCHANGED savedImageElement
    /\ UNCHANGED <<isCvLoaded, refsAttached, now, mounted>>
    /\ UNCHANGED <<buildVars, detectVars, resultVars, studyVars>>

\* img.onload of the saved image element
ElementLoaded(img) ==
    /\ img \in elementLoads
    /\ savedImageElement' = img
    /\ elementLoads' = elementLoads \ {img}
    /\ UNCHANGED <<hasSavedImage, savedImage, pendingImages>>
    /\ UNCHANGED <<envVars, buildVars, detectVars, resultVars, studyVars>>

\* img.onload of a capture image: performMatching(img) runs to its end
ImageOnload(k, throws) ==
    /\ k \in 1..Len(pendingImages)
    /\ pendingImages' = SubSeq(pendingImages, 1, k - 1)
                          \o SubSeq(pendingImages, k + 1, Len(pendingImages))
    /\ candidates' = candidatesAfter(candidates, isCvLoaded, masterDataMap,
                                     pendingImages[k], throws)
    /\ exposed' = filteredCandidates(candidates', blacklist)
    /\ isAnalyzing' = analyzingAfter(isAnalyzing, isCvLoaded, masterDataMap, throws)
    /\ UNCHANGED blacklist
    /\ UNCHANGED <<hasSavedImage, savedImage, savedImageElement, elementLoads>>
    /\ UNCHANGED <<envVars, buildVars, detectVars, studyVars>>

(***************************************************************************)
(* deleteImage and addToBlacklist.                                         *)
(***************************************************************************)
\* variant: the exclusions survive the reset
keepBlacklist(list) == list

\* setBlacklist([])
resetBlacklist(list) == << >>

\* variant: the reset forgets the timer without cancelling it
timersUncleared(pendingTimers, pending) == pendingTimers

\* if (detectionTimeoutRef.current) clearTimeout(detectionTimeoutRef.current)
timersAfterClear(pendingTimers, pending) == pendingTimers \ {pending}

DeleteImage ==
    /\ savedImage' = NoImage
    /\ savedImageElement' = NoImage
    /\ hasSavedImage' = FALSE
    /\ candidates' = << >>
    /\ blacklist' = resetBlacklist(blacklist)
    /\ exposed' = filteredCandidates(candidates', blacklist')
    /\ detectedRectImage' = NoImage
    /\ detectionTimeout' = NoTime
    /\ timers' = timersAfterClear(timers, detectionTimeout)
    /\ lastDetectionTime' = NoTime
    /\ UNCHANGED <<elementLoads, pendingImages, isAnalyzing>>
    /\ pendingTicks' = IF hasSavedImage THEN effectRestart(pendingTicks, isCvLoaded)
                       ELSE pendingTicks
    /\ UNCHANGED <<detectedRect, rectDetectionCount, canvasImage, rectCycle>>
    /\ UNCHANGED <<isCvLoaded, refsAttached, now, mounted>>
    /\ UNCHANGED <<buildVars, studyVars>>

AddToBlacklist(card) ==
    /\ blacklist' = Append(blacklist, card)
    /\ exposed' = filteredCandidates(candidates, blacklist')
    /\ UNCHANGED <<candidates, isAnalyzing>>
    /\ UNCHANGED <<envVars, buildVars, detectVars, captureVars, studyVars>>

(***************************************************************************)
(* The passage of time between steps.                                      *)
(***************************************************************************)
AdvanceSteps == {500, 1000}

\* the image loads that are outstanding: those of the captures and those of
\* the saved image element
outstandingLoads == Len(pendingImages) + Cardinality(elementLoads)

(***************************************************************************)
(* The detector, the debounce timer and capture, while the reference list  *)
(* is still being fetched: the database stays empty.                       *)
(***************************************************************************)
NextDetect ==
    \/ CvLoaded
    \/ AttachRefs
    \/ \E f \in Frames : Tick(f)
    \/ Expire
    \/ \E d \in AdvanceSteps : Advance(d)
    \/ outstandingLoads < MaxPending /\ Capture
    \/ \E img \in elementLoads : ElementLoaded(img)
    \/ \E k \in 1..Len(pendingImages), throws \in BOOLEAN : ImageOnload(k, throws)
    \/ DeleteImage

SpecDetect == Init /\ [][NextDetect]_vars

(***************************************************************************)
(* The database construction and identification, with a camera that shows  *)
(* scenes without contours and within one clock reading: nothing is        *)
(* detected, every capture takes the canvas.                               *)
(***************************************************************************)
NextIdent ==
    \/ CvLoaded
    \/ AttachRefs
    \/ \E ok \in BOOLEAN : FetchList(ok)
    \/ \E t \in Tasks, ok \in BOOLEAN : ImageTaskSettle(t[1], t[2], ok)
    \/ \E f \in PlainFrames : Tick(f)
    \/ outstandingLoads < MaxPending /\ Capture
    \/ \E img \in elementLoads : ElementLoaded(img)
    \/ \E k \in 1..Len(pendingImages), throws \in BOOLEAN : ImageOnload(k, throws)
    \/ DeleteImage
    \/ \E card \in DisplayNames :
          Len(blacklist) < MaxBlacklist /\ AddToBlacklist(card)

SpecIdent == Init /\ [][NextIdent]_vars

(***************************************************************************)
(* A session on a complete database: every image of master-list.json has   *)
(* loaded, in the order of the list.  Captures may follow each other       *)
(* before their images have loaded.                                        *)
(***************************************************************************)
MaxSessionPending == 2     \* cap of the image loads that are outstanding
MaxSessionBlacklist == 2   \* cap of the length of blacklist

AllLoaded == [t \in Tasks |-> "ok"]

RECURSIVE loadedUpTo(_)
loadedUpTo(c) ==
    IF c = 0 THEN << >> ELSE cardLoaded(loadedUpTo(c - 1), AllLoaded, c)

\* the hook once the library is loaded, the elements are attached and the
\* construction has completed, before any frame is drawn
SessionIdle ==
    /\ isCvLoaded = TRUE
    /\ refsAttached = TRUE
    /\ now = 0
    /\ pendingTicks = 1
    /\ mounted = TRUE
    /\ buildPhase = "done"
    /\ taskState = AllLoaded
    /\ isMasterReady = masterReady(successCountOf(AllLoaded))
    /\ report = [successCount |-> successCountOf(AllLoaded),
                 totalCount   |-> Len(MasterList)]
    /\ detectedRect = NoRect
    /\ detectedRectImage = NoImage
    /\ rectDetectionCount = 0
    /\ lastDetectionTime = NoTime
    /\ detectionTimeout = NoTime
    /\ timers = {}
    /\ canvasImage = BlankCanvas
    /\ rectCycle = NoCycle
    /\ hasSavedImage = FALSE
    /\ savedImage = NoImage
    /\ savedImageElement = NoImage
    /\ elementLoads = {}
    /\ pendingImages = << >>
    /\ candidates = << >>
    /\ blacklist = << >>
    /\ isAnalyzing = FALSE
    /\ exposed = << >>

InitSession ==
    /\ SessionIdle
    /\ masterDataMap = loadedUpTo(Len(MasterList))
    /\ StudyIdle

NextSession ==
    \/ \E f \in SessionFrames : Tick(f)
    \/ outstandingLoads < MaxSessionPending /\ Capture
    \/ \E img \in elementLoads : ElementLoaded(img)
    \/ \E k \in 1..Len(pendingImages), throws \in BOOLEAN : ImageOnload(k, throws)
    \/ DeleteImage
    \/ \E card \in DisplayNames :
          Len(blacklist) < MaxSessionBlacklist /\ AddToBlacklist(card)

SpecSession == InitSession /\ [][NextSession]_vars

Next == NextDetect \/ NextIdent

Spec == Init /\ [][Next]_vars

(***************************************************************************)
(* The component is unmounted while the database is being built: the       *)
(* cleanup functions of the effects run, the promises of the load tasks    *)
(* that are pending stay pending and settle later.                         *)
(***************************************************************************)
\* the cleanup of the tick effect and of the teardown effect: the animation
\* frame and the timer are cancelled, the signatures of the map are
\* deleted and masterDataMap.clear() is called
Teardown ==
    /\ mounted
    /\ mounted' = FALSE
    /\ pendingTicks' = 0
    /\ timers' = timers \ {detectionTimeout}
    /\ detectionTimeout' = NoTime
    /\ masterDataMap' = << >>
    /\ UNCHANGED <<isCvLoaded, refsAttached, now>>
    /\ UNCHANGED <<buildPhase, taskState, isMasterReady, report>>
    /\ UNCHANGED <<detectedRect, detectedRectImage, rectDetectionCount,
                   lastDetectionTime, canvasImage, rectCycle>>
    /\ UNCHANGED <<captureVars, resultVars, studyVars>>

NextTeardown ==
    \/ mounted /\ CvLoaded
    \/ \E ok \in BOOLEAN : FetchList(ok)
    \/ \E t \in Tasks, ok \in BOOLEAN : ImageTaskSettle(t[1], t[2], ok)
    \/ Teardown

SpecTeardown == Init /\ [][NextTeardown]_vars

(***************************************************************************)
(* The score of one identity as a function of its reference images: the    *)
(* capture is drawn at the start, a step supplies one more reference image *)
(* and scores the identity again with the loop of performMatching.         *)
(***************************************************************************)
MaxRefImages == 2

StudyDescriptors == {{}, {1}, {1, 2}, {2, 3}}

StudySignatures ==
    {<< >>} \cup {<<a>> : a \in StudyDescriptors}
            \cup {<<a, b>> : a \in StudyDescriptors, b \in StudyDescriptors}

InitScore ==
    /\ HookInit
    /\ mQuery \in StudySignatures
    /\ mImages = << >>
    /\ mScore = cardScore(mQuery, << >>)
    /\ GeometryIdle
    /\ MemoryIdle
    /\ ContourIdle

AddReferenceImage(signature) ==
    /\ Len(mImages) < MaxRefImages
    /\ mImages' = Append(mImages, signature)
    /\ mScore' = cardScore(mQuery, mImages')
    /\ UNCHANGED <<mQuery, qPoints, qValid, qSorted, qPasses, memLive, memCall>>
    /\ UNCHANGED contourVars
    /\ UNCHANGED <<envVars, buildVars, detectVars, captureVars, resultVars>>

NextScore == \E signature \in StudySignatures : AddReferenceImage(signature)

SpecScore == InitScore /\ [][NextScore]_vars

(***************************************************************************)
(* The ranking of two identities as a function of the capture and of the   *)
(* reference images: identity A has one reference image, identity B has    *)
(* two, and performMatching ranks the capture against them.                *)
(***************************************************************************)
StudyImages == StudySignatures \ {<< >>}

StudySingles == {<<a>> : a \in StudyDescriptors}

StudyDatabases ==
    { << [cardName |-> "A", displayName |-> "A", images |-> <<a>>],
         [cardName |-> "B", displayName |-> "B", images |-> <<b1, b2>>] >> :
        a \in StudyImages, b1 \in StudySingles, b2 \in StudySingles }

InitRank ==
    /\ SessionIdle
    /\ masterDataMap \in StudyDatabases
    /\ mQuery \in StudySignatures
    /\ mImages = << >>
    /\ mScore = 0
    /\ GeometryIdle
    /\ MemoryIdle
    /\ ContourIdle

\* a capture whose descriptors are mQuery, and performMatching on it
RankCapture ==
    /\ ~matchingRefused(isCvLoaded, masterDataMap)
    /\ hasSavedImage' = TRUE
    /\ candidates' = sortedCandidates(mQuery, masterDataMap)
    /\ exposed' = filteredCandidates(candidates', blacklist)
    /\ isAnalyzing' = analyzingAfter(isAnalyzing, isCvLoaded, masterDataMap, FALSE)
    /\ UNCHANGED blacklist
    /\ UNCHANGED <<savedImage, savedImageElement, elementLoads, pendingImages>>
    /\ UNCHANGED <<envVars, buildVars, detectVars, studyVars>>

NextRank == RankCapture

SpecRank == InitRank /\ [][NextRank]_vars

(***************************************************************************)
(* checkRectangleShape and sortRectanglePoints as functions of the four    *)
(* points approxPolyDP returns: the points are drawn at the start, a step  *)
(* checks the shape or orders the points, first the input and then the     *)
(* result of the ordering before.                                          *)
(***************************************************************************)
MaxPasses == 2          \* how often the points are ordered again
GridMax == 2            \* the points of arbitrary polygons lie in 0..GridMax
SquareGridMax == 3      \* the vertices of the squares lie in 0..SquareGridMax

\* the square with first vertex p and first edge e, in traversal order
squareFrom(p, e) ==
    << p,
       Pt(p.x + e.x, p.y + e.y),
       Pt(p.x + e.x - e.y, p.y + e.y + e.x),
       Pt(p.x - e.y, p.y + e.x) >>

StudyGrid == {Pt(x, y) : x \in 0..GridMax, y \in 0..GridMax}

StudySquares ==
    LET coords == 0..SquareGridMax
        edges  == {Pt(a, b) : a \in (0 - SquareGridMax)..SquareGridMax,
                              b \in (0 - SquareGridMax)..SquareGridMax} \ {Pt(0, 0)}
        all    == {squareFrom(Pt(x, y), e) : x \in coords, y \in coords, e \in edges}
    IN  {q \in all : \A i \in 1..4 : q[i].x \in coords /\ q[i].y \in coords}

\* quads with two right angles at the left and a slanted side at the right
StudyTrapezoids ==
    {<<Pt(0, 0), Pt(w, 0), Pt(w, h1), Pt(0, h2)>> :
        w \in 1..SquareGridMax, h1 \in 1..SquareGridMax, h2 \in 1..SquareGridMax}

StudyQuads == [1..4 -> StudyGrid] \cup StudySquares \cup StudyTrapezoids

InitGeometry ==
    /\ HookInit
    /\ mQuery = << >>
    /\ mImages = << >>
    /\ mScore = 0
    /\ qPoints \in StudyQuads
    /\ qValid = "unchecked"
    /\ qSorted = << >>
    /\ qPasses = 0
    /\ MemoryIdle
    /\ ContourIdle

\* const isValidRectangle = checkRectangleShape(points)
CheckShape ==
    /\ qValid = "unchecked"
    /\ qValid' = IF checkRectangleShape(qPoints) THEN "valid" ELSE "invalid"
    /\ UNCHANGED <<mQuery, mImages, mScore, qPoints, qSorted, qPasses>>
    /\ UNCHANGED <<memLive, memCall, contourVars>>
    /\ UNCHANGED <<envVars, buildVars, detectVars, captureVars, resultVars>>

\* sortRectanglePoints applied to the points, then to its own result
OrderPoints ==
    /\ qPasses < MaxPasses
    /\ qSorted' = sortRectanglePoints(IF qPasses = 0 THEN qPoints ELSE qSorted)
    /\ qPasses' = qPasses + 1
    /\ UNCHANGED <<mQuery, mImages, mScore, qPoints, qValid, memLive, memCall>>
    /\ UNCHANGED contourVars
    /\ UNCHANGED <<envVars, buildVars, detectVars, captureVars, resultVars>>

NextGeometry == CheckShape \/ OrderPoints

SpecGeometry == InitGeometry /\ [][NextGeometry]_vars

(***************************************************************************)
(* The vision-library objects of one call of drawLoop or performMatching.  *)
(* A call is the list of its allocations (new cv.Mat(), cv.imread, ...),   *)
(* its library calls and its delete() calls, in program order, each in the *)
(* block of the function it stands in.  Any allocation or library call may *)
(* throw; control then passes to the catch or finally block the code has.  *)
(***************************************************************************)
MaxLive == 2            \* calls are made while fewer objects are live
MaxMatchImages == 2     \* reference images an identification compares with

new(block, name) == [op |-> "new", block |-> block, obj |-> name]
call(block, name) == [op |-> "call", block |-> block, obj |-> name]
del(block, name) == [op |-> "delete", block |-> block, obj |-> name]

\* drawLoop from cv.imread to the end of the outer try block; hasContour:
\* largestContour is not null, so approx is allocated
drawLoopProgram(hasContour) ==
    << new("outer", "src"), new("outer", "gray"), call("outer", "cvtColor"),
       new("outer", "contrast"), call("outer", "convertTo"),
       new("outer", "rgba"), call("outer", "cvtColor"),
       call("outer", "putImageData"), del("outer", "rgba"),
       new("inner", "edges"), call("inner", "Canny"),
       new("inner", "dilated"), new("inner", "kernel"), call("inner", "dilate"),
       new("inner", "contours"), new("inner", "hierarchy"),
       call("inner", "findContours") >>
    \o (IF hasContour
        THEN << new("inner", "approx"), call("inner", "approxPolyDP"),
                del("inner", "approx") >>
        ELSE << >>)
    \o << del("inner", "edges"), del("inner", "dilated"), del("inner", "kernel"),
          del("inner", "contours"), del("inner", "hierarchy"),
          del("after", "src"), del("after", "gray"), del("after", "contrast") >>

\* drawLoop when imread returns an empty matrix: src?.delete() and return
emptyFrameProgram == << new("outer", "src"), del("outer", "src") >>

\* the loop body of performMatching for reference images i..n
RECURSIVE matchLoopProgram(_, _)
matchLoopProgram(i, n) ==
    IF i > n THEN << >>
    ELSE << new("try", "matches"), call("try", "match"), del("try", "matches") >>
         \o matchLoopProgram(i + 1, n)

\* performMatching with n reference images in the database
performMatchingProgram(n) ==
    << new("try", "src"), new("try", "gray"), call("try", "cvtColor"),
       new("try", "orb"), new("try", "keypoints"), new("try", "descriptors"),
       new("try", "mask"), call("try", "detectAndCompute"),
       new("try", "matcher") >>
    \o matchLoopProgram(1, n)
    \o << del("finally", "src"), del("finally", "gray"), del("finally", "orb"),
          del("finally", "keypoints"), del("finally", "descriptors"),
          del("finally", "matcher") >>

\* the blocks that still run when a step of the block throws: the inner
\* catch of drawLoop falls through to the code after it, the outer catch
\* releases nothing, performMatching has a finally block
blocksAfterThrow(block) ==
    CASE block = "inner" -> {"after"}
      [] block = "try"   -> {"finally"}
      [] OTHER           -> {}

\* whether step k of the program runs when step throwAt throws (0: none)
stepRuns(program, k, throwAt) ==
    \/ throwAt = 0
    \/ k < throwAt
    \/ k > throwAt /\ program[k].block \in blocksAfterThrow(program[throwAt].block)

\* the objects that are live after steps k.. of the program
RECURSIVE liveAfter(_, _, _, _)
liveAfter(program, k, throwAt, live) ==
    IF k > Len(program) THEN live
    ELSE liveAfter(program, k + 1, throwAt,
             IF ~stepRuns(program, k, throwAt) THEN live
             ELSE IF program[k].op = "new" THEN live \cup {program[k].obj}
             ELSE IF program[k].op = "delete" THEN live \ {program[k].obj}
             ELSE live)

programOf(c) ==
    CASE c.handler = "performMatching" -> performMatchingProgram(c.shape)
      [] c.shape = 0                   -> emptyFrameProgram
      [] OTHER                         -> drawLoopProgram(c.shape = 2)

\* the steps that may throw: the allocations and the library calls
throwPoints(program) == {0} \cup {k \in 1..Len(program) : program[k].op # "delete"}

\* the calls: drawLoop on an empty frame (0), a frame without (1) and with
\* (2) a contour that meets the floor, performMatching with n images
MemoryCalls ==
    {[handler |-> "drawLoop", shape |-> f, throwAt |-> k] :
        f \in 0..2, k \in 0..Len(drawLoopProgram(TRUE))}
    \cup {[handler |-> "performMatching", shape |-> n, throwAt |-> k] :
        n \in 1..MaxMatchImages, k \in 0..Len(performMatchingProgram(MaxMatchImages))}

InitMemory == HookInit /\ StudyIdle

\* one call of drawLoop or performMatching, from its first allocation to
\* its return
MemoryCall(c) ==
    /\ memLive < MaxLive
    /\ c.throwAt \in throwPoints(programOf(c))
    /\ memLive' = memLive + Cardinality(liveAfter(programOf(c), 1, c.throwAt, {}))
    /\ memCall' = c
    /\ UNCHANGED <<mQuery, mImages, mScore, qPoints, qValid, qSorted, qPasses>>
    /\ UNCHANGED contourVars
    /\ UNCHANGED <<envVars, buildVars, detectVars, captureVars, resultVars>>

NextMemory == \E c \in MemoryCalls : MemoryCall(c)

SpecMemory == InitMemory /\ [][NextMemory]_vars

(***************************************************************************)
(* The selection of largestContour as a function of the contour areas of   *)
(* one frame: the areas are drawn at the start, a step runs the two loops  *)
(* of drawLoop over them.                                                  *)
(***************************************************************************)
MaxContours == 3        \* how many contours a frame of the study has

\* below the floor, the floor, between the floor and half the largest, more
\* than half the largest, the largest
StudyAreas == {0, 400, 500, 600, 1000, 1300}

RECURSIVE StudyAreaLists(_)
StudyAreaLists(n) ==
    IF n = 0 THEN {<< >>}
    ELSE StudyAreaLists(n - 1)
         \cup {Append(l, contour(a, Square)) :
                   l \in {m \in StudyAreaLists(n - 1) : Len(m) = n - 1},
                   a \in StudyAreas}

InitContour ==
    /\ HookInit
    /\ mQuery = << >>
    /\ mImages = << >>
    /\ mScore = 0
    /\ GeometryIdle
    /\ MemoryIdle
    /\ cContours \in StudyAreaLists(MaxContours)
    /\ cLargest = Unselected

\* the loops at 721-731 and 737-749 on the contours of the frame
SelectContour ==
    /\ cLargest = Unselected
    /\ cLargest' = largestContour(cContours)
    /\ UNCHANGED cContours
    /\ UNCHANGED <<mQuery, mImages, mScore, qPoints, qValid, qSorted, qPasses,
                   memLive, memCall>>
    /\ UNCHANGED <<envVars, buildVars, detectVars, captureVars, resultVars>>

NextContour == SelectContour

SpecContour == InitContour /\ [][NextContour]_vars

(***************************************************************************)
(*                              The claims                                 *)
(***************************************************************************)

\* C1: the candidate list exposed to callers holds no candidate whose
\* display name is in the exclusion set, and it is the raw ranked list with
\* exactly those candidates removed, the others in their order.
C1_ExposedIsFiltered ==
    /\ \A i \in 1..Len(exposed) : exposed[i].cardName \notin Range(blacklist)
    /\ exposed = SelectSeq(candidates, LAMBDA c : c.cardName \notin Range(blacklist))

C1_Witness ==
    /\ Len(exposed) > 0
    /\ Len(exposed) < Len(candidates)

\* a step in which performMatching gets past its guard and ranks
RankingStep ==
    /\ Len(pendingImages') < Len(pendingImages)
    /\ isCvLoaded
    /\ Len(masterDataMap) > 0

\* C2: no identification run computes a ranking while the reference
\* database is still being built: whenever performMatching ranks, every
\* load task of every identity has settled.
C2_NoRankingDuringBuild ==
    [][RankingStep => \A t \in Tasks : taskState[t] # "pending"]_vars

\* C3: a Quad exposed as detectedRect comes from a cycle whose simplified
\* polygon had exactly 4 vertices and passed checkRectangleShape.
C3_RectValidated ==
    detectedRect # NoRect => rectCycle.approxSize = 4 /\ rectCycle.isValid

C3_Witness ==
    /\ detectedRect # NoRect
    /\ rectDetectionCount = 2

\* a cycle that detects a Quad: the only step that increments the counter
DetectionStep == rectDetectionCount' = rectDetectionCount + 1

CaptureStep == Len(pendingImages') = Len(pendingImages) + 1

\* C5: a capture hands to persistence and to identification the held crop
\* whenever a crop is held, and the whole canvas only when none is held.
C5_CaptureTakesCrop ==
    [][CaptureStep =>
          LET handed == pendingImages'[Len(pendingImages')]
          IN  /\ savedImage' = handed
              /\ hasSavedImage'
              /\ detectedRectImage # NoImage => handed = detectedRectImage
              /\ detectedRectImage = NoImage => handed = canvasImage
      ]_vars

C5_Witness ==
    /\ savedImage.kind = "crop"
    /\ Len(pendingImages) = 1
    /\ pendingImages[1] = savedImage
    /\ canvasImage.kind = "frame"

\* C6: the database-ready flag is set, and the completion is reported,
\* only when no load task of any identity is still pending.
C6_ReadyAfterAllSettled ==
    (isMasterReady \/ buildPhase = "done" \/ report # NoReport) =>
        \A t \in Tasks : taskState[t] # "pending"

C6_Witness ==
    /\ isMasterReady
    /\ \E t \in Tasks : taskState[t] = "failed"
    /\ masterDataMap[1].cardName = "ACE"

\* the identities with at least one successfully processed image
LoadedCards == {c \in CardIds : \E t \in Tasks : t[1] = c /\ taskState[t] = "ok"}

\* C7: when construction finishes, successCount is the number of identities
\* with at least one processed image, which is the database size,
\* totalCount is the number of identities of the input, and the database is
\* ready iff successCount >= 1; before that it is not ready.
C7_CountsAndReadiness ==
    /\ buildPhase = "done" =>
          /\ report.successCount = Cardinality(LoadedCards)
          /\ report.successCount = Len(masterDataMap)
          /\ report.totalCount = Len(MasterList)
          /\ isMasterReady <=> report.successCount >= 1
    /\ buildPhase # "done" => ~isMasterReady /\ report = NoReport

\* one of the three identities failed, one has two images
C7_Witness ==
    /\ buildPhase = "done"
    /\ report = [successCount |-> 2, totalCount |-> 3]
    /\ \A t \in Tasks : t[1] = 2 => taskState[t] = "ok"

\* the successful files of card c up to file i
OkUpTo(c, i) == {j \in 1..i : taskState[<<c, j>>] = "ok"}

\* the entries of the database that belong to card c
EntriesOf(c) == {k \in 1..Len(masterDataMap) :
                    masterDataMap[k].cardName = MasterList[c].cardName}

\* C8: a failed image does not abort the construction; a settled identity
\* is in the database iff one of its images was processed, and then holds
\* exactly the signatures of its successful images, in file order.
C8_FailedImagesSkipped ==
    /\ (\A t \in Tasks : taskState[t] # "pending") => buildPhase = "done"
    /\ \A c \in CardIds :
          LET n == Len(MasterList[c].files)
          IN  IF \E i \in 1..n : taskState[<<c, i>>] = "pending"
              THEN EntriesOf(c) = {}
              ELSE /\ Cardinality(EntriesOf(c)) = (IF OkUpTo(c, n) = {} THEN 0 ELSE 1)
                   /\ \A k \in EntriesOf(c) :
                         /\ Len(masterDataMap[k].images) = Cardinality(OkUpTo(c, n))
                         /\ \A i \in OkUpTo(c, n) :
                               masterDataMap[k].images[Cardinality(OkUpTo(c, i))]
                                   = ImageDescriptors(MasterList[c].files[i])

\* the second identity lost its first image and kept its second, the first
\* identity lost its only image, the third was loaded after that
C8_Witness ==
    /\ buildPhase = "done"
    /\ taskState[<<1, 1>>] = "failed"
    /\ taskState[<<2, 1>>] = "failed"
    /\ taskState[<<2, 2>>] = "ok"
    /\ taskState[<<3, 1>>] = "ok"
    /\ Len(masterDataMap) = 2

\* the position of a display name in the database
DbPosition(name) ==
    CHOOSE k \in 1..Len(masterDataMap) : masterDataMap[k].displayName = name

\* C9: the ranked list is in non-increasing score order, and identities
\* with equal scores stand in the order of their insertion into the
\* database.
C9_RankedStable ==
    \A i \in 1..Len(candidates) : \A j \in (i + 1)..Len(candidates) :
        /\ candidates[i].matchCount >= candidates[j].matchCount
        /\ candidates[i].matchCount = candidates[j].matchCount =>
              DbPosition(candidates[i].cardName) < DbPosition(candidates[j].cardName)

\* three identities ranked, two of them equal, with the database filled in
\* another order than the input lists them
C9_Witness ==
    /\ Len(candidates) = 3
    /\ candidates[1].matchCount = candidates[2].matchCount
    /\ candidates[2].matchCount > candidates[3].matchCount
    /\ candidates[1].cardName = "ACE"
    /\ candidates[2].cardName = "THE FOOL"

\* the largest good-match count over a set of reference images
RECURSIVE MaxGood(_, _)
MaxGood(query, images) ==
    IF images = {} THEN 0
    ELSE LET img == CHOOSE x \in images : TRUE
             rest == MaxGood(query, images \ {img})
             good == goodMatchCount(query, img)
         IN  IF good >= rest THEN good ELSE rest

\* C10: the score of an identity is the maximum good-match count over its
\* reference images, and for a fixed capture it never decreases when a
\* further reference image is supplied.
C10_BestOfN ==
    /\ [](mScore = MaxGood(mQuery, Range(mImages)))
    /\ [][mScore' >= mScore]_vars

\* the first image scores, the second scores less
C10_Witness ==
    /\ Len(mImages) = 2
    /\ goodMatchCount(mQuery, mImages[2]) < goodMatchCount(mQuery, mImages[1])
    /\ goodMatchCount(mQuery, mImages[2]) > 0
    /\ mScore = goodMatchCount(mQuery, mImages[1])

\* C11: when the capture and one reference image of an identity are
\* bit-identical, so that their descriptors are the same, the score of the
\* identity is the number of keypoints extracted from the image.
C11_IdenticalScoresAll ==
    (\E i \in 1..Len(mImages) : mImages[i] = mQuery) => mScore = Len(mQuery)

\* the identical image is the second of two, the first is another image
C11_Witness ==
    /\ Len(mImages) = 2
    /\ mImages[2] = mQuery
    /\ mImages[1] # mQuery
    /\ Len(mQuery) = 2
    /\ mScore = 2

\* the distance of every capture descriptor to its nearest descriptor of a
\* reference image
NearestDistances(query, ref) ==
    {nearestDistance(query[i], ref, 1, Infinity) : i \in 1..Len(query)}

\* the capture matches the image closely: it has descriptors and each is
\* within the floor of the threshold of a descriptor of the image
MatchesClosely(query, ref) ==
    /\ Len(query) > 0
    /\ \A d \in NearestDistances(query, ref) : d < MinThreshold

\* the capture matches the image poorly: no descriptor is within twice the
\* floor of the threshold of any descriptor of the image
MatchesPoorly(query, ref) ==
    \A d \in NearestDistances(query, ref) : d >= 2 * MinThreshold

\* C12: with identity A (one reference image, here of 2 keypoints instead
\* of 200) and identity B (two reference images), a capture that matches A
\* closely and B poorly is ranked A first with a score of at most the
\* number of A's keypoints, and B second with a strictly lower score.
C12_CloseRanksFirst ==
    (/\ Len(candidates) = 2
     /\ Len(masterDataMap[1].images[1]) = 2
     /\ MatchesClosely(mQuery, masterDataMap[1].images[1])
     /\ \A j \in 1..2 : MatchesPoorly(mQuery, masterDataMap[2].images[j]))
    => /\ candidates[1].cardName = "A"
       /\ candidates[1].matchCount <= 2
       /\ candidates[2].cardName = "B"
       /\ candidates[2].matchCount < candidates[1].matchCount

\* a step in which the onload of a capture image calls performMatching
IdentificationStep == Len(pendingImages') < Len(pendingImages)

\* C13: when identification is invoked while the database is empty or not
\* ready, the result exposed is an empty ranked list, with the database
\* still flagged not ready.
C13_NotReadyGivesEmpty ==
    [][(IdentificationStep /\ ~isMasterReady) =>
          /\ candidates' = << >>
          /\ exposed' = << >>
          /\ ~isMasterReady'
      ]_vars

\* a step that clears the persisted image, the saved flag or the exclusions
ResetStep ==
    \/ savedImage # NoImage /\ savedImage' = NoImage
    \/ hasSavedImage /\ ~hasSavedImage'
    \/ blacklist # << >> /\ blacklist' = << >>

\* C14: the reset clears the persisted image, the candidate list and the
\* exclusion set in one step: whenever one of the persisted image, the
\* saved flag and the exclusion set is cleared, the state after the step
\* has no persisted image, hasSavedImage false, no candidates and no
\* exclusions, and the list exposed is empty.
C14_ResetClearsTogether ==
    [][ResetStep =>
          /\ savedImage' = NoImage
          /\ ~hasSavedImage'
          /\ candidates' = << >>
          /\ blacklist' = << >>
          /\ exposed' = << >>
      ]_vars

\* the state after a reset that followed a capture whose image is still
\* loading
C14_Witness ==
    /\ savedImage = NoImage
    /\ ~hasSavedImage
    /\ candidates = << >>
    /\ blacklist = << >>
    /\ Len(pendingImages) = 1
    /\ elementLoads # {}

\* a step of addToBlacklist with a name that is excluded already
RepeatedExclusion ==
    /\ Len(blacklist) > 0
    /\ Len(blacklist') = Len(blacklist) + 1
    /\ SubSeq(blacklist', 1, Len(blacklist)) = blacklist
    /\ blacklist'[Len(blacklist')] \in Range(blacklist)

\* C15: excluding a display name a second time leaves the filtered list as
\* it was after the first exclusion, for every ranked list and every prior
\* exclusion set.
C15_ExclusionIdempotent ==
    [][RepeatedExclusion =>
          /\ exposed' = exposed
          /\ exposed' = filteredCandidates(candidates, blacklist)
      ]_vars

\* a name of the ranked list has been excluded twice, other candidates
\* remain
C15_Witness ==
    /\ Len(blacklist) = 2
    /\ blacklist[1] = blacklist[2]
    /\ \E i \in 1..Len(candidates) : candidates[i].cardName = blacklist[1]
    /\ Len(exposed) = Len(candidates) - 1
    /\ Len(exposed) > 0

\* C16: at most one identification is in flight: a capture issued before
\* the identification of an earlier capture has completed is rejected or
\* queued behind it, so the captures awaiting identification are never
\* more than the one being served and those queued behind it, and the
\* identification that completes is always that of the oldest.
C16_OneIdentificationAtATime ==
    [][IdentificationStep => pendingImages' = Tail(pendingImages)]_vars

\* C17: a capture invoked while the canvas, the video or the vision library
\* is not available is refused as a no-op: as long as one of them is
\* missing no step persists an image, sets hasSavedImage, changes the
\* candidates or starts an identification.
C17_RefusedCaptureIsNoOp ==
    [][(~refsAttached \/ ~isCvLoaded) =>
          /\ savedImage' = savedImage
          /\ hasSavedImage' = hasSavedImage
          /\ candidates' = candidates
          /\ exposed' = exposed
          /\ pendingImages' = pendingImages
          /\ elementLoads' = elementLoads
      ]_vars

\* the library is loaded and its data is being fetched, frames cannot be
\* drawn and captures are refused since the elements are not attached
C17_Witness ==
    /\ isCvLoaded
    /\ ~refsAttached
    /\ buildPhase = "loading"
    /\ masterDataMap # << >>
    /\ savedImage = NoImage
    /\ pendingImages = << >>

\* C18: a cycle in which the frame is not ready or zero-sized, a contour
\* step throws, the polygon has not 4 vertices or the shape check fails
\* exposes no detection: in particular, once a cycle has drawn a
\* zero-sized frame (the canvas is blank) no Quad of an earlier cycle is
\* exposed.
C18_FailedCycleExposesNone ==
    canvasImage = BlankCanvas => detectedRect = NoRect

\* C19: canonical ordering is idempotent: ordering the result of
\* sortRectanglePoints again returns the same four points in the same
\* order, for every 4-point input, ties on x+y or x-y included.
C19_OrderingIdempotent ==
    [][(qPasses >= 1 /\ qPasses' = qPasses + 1) => qSorted' = qSorted]_vars

\* the points of out are the vertices of the square in the order top-left,
\* top-right, bottom-right, bottom-left: all vertices of the input, the
\* first one nearest to the top-left corner of the image, the others
\* following it clockwise on the screen
CanonicalSquare(input, out) ==
    /\ Len(out) = 4
    /\ Range(out) = Range(input)
    /\ \A i \in 1..4 : out[1].x + out[1].y <= out[i].x + out[i].y
    /\ out = squareFrom(out[1], Pt(out[2].x - out[1].x, out[2].y - out[1].y))

\* C20: for every perfect square given as four vertices in traversal
\* order, checkRectangleShape returns true and the canonical ordering is
\* top-left, top-right, bottom-right, bottom-left.
C20_SquareAcceptedAndOrdered ==
    qPoints \in StudySquares =>
        /\ qValid # "unchecked" => qValid = "valid"
        /\ qPasses = 1 => CanonicalSquare(qPoints, qSorted)

\* the squared lengths of the sides of a quad, in traversal order
SideLengths2(q) == [i \in 1..4 |-> Dist2(q[i], q[Wrap4(i + 1)])]

\* the shorter of two sides is below 0.9 of the longer one
ShorterBelowNineTenths(a2, b2) ==
    \/ a2 <= b2 /\ b2 > 0 /\ 100 * a2 < 81 * b2
    \/ b2 <= a2 /\ a2 > 0 /\ 100 * b2 < 81 * a2

HasUnequalOppositeSides(q) ==
    \/ ShorterBelowNineTenths(SideLengths2(q)[1], SideLengths2(q)[3])
    \/ ShorterBelowNineTenths(SideLengths2(q)[2], SideLengths2(q)[4])

\* C21: every 4-vertex polygon in which a pair of opposite sides has a
\* shorter-to-longer length ratio below 0.9 is rejected by
\* checkRectangleShape.
C21_UnequalSidesRejected ==
    (qValid # "unchecked" /\ Len(qPoints) = 4 /\ HasUnequalOppositeSides(qPoints))
        => qValid = "invalid"

\* a trapezoid whose angles are within 20 degrees of the right angle and
\* whose width and height are alike: only its left side, two thirds of its
\* right side, rejects it
C21_Witness ==
    /\ qPoints = <<Pt(0, 0), Pt(3, 0), Pt(3, 3), Pt(0, 2)>>
    /\ HasUnequalOppositeSides(qPoints)
    /\ qValid = "invalid"

\* twice the signed area of a quad (shoelace formula)
Area2(q) ==
    (q[1].x * q[2].y - q[2].x * q[1].y) + (q[2].x * q[3].y - q[3].x * q[2].y)
      + (q[3].x * q[4].y - q[4].x * q[3].y) + (q[4].x * q[1].y - q[1].x * q[4].y)

\* the interior angle at vertex i, between the sides that meet there, is
\* below 70 or above 110 degrees: the angle between the two sides seen from
\* the vertex has cos^2 > cos(70)^2, or the vertex is reflex (the quad turns
\* there against its orientation, the interior angle is above 180 degrees)
InteriorAngleOff(q, i) ==
    LET p    == q[i]
        prev == q[Wrap4(i + 3)]
        next == q[Wrap4(i + 1)]
        ux   == prev.x - p.x
        uy   == prev.y - p.y
        wx   == next.x - p.x
        wy   == next.y - p.y
        dot  == ux * wx + uy * wy
        turn == ux * wy - uy * wx
        l2   == (ux * ux + uy * uy) * (wx * wx + wy * wy)
    IN  /\ l2 > 0
        /\ \/ dot * dot * Cos2Den > Cos2Num * l2
           \/ turn * Area2(q) > 0

\* C22: every 4-vertex polygon that has an interior angle below 70 or
\* above 110 degrees is rejected by checkRectangleShape.
C22_OffAnglesRejected ==
    (qValid # "unchecked" /\ Len(qPoints) = 4
        /\ \E i \in 1..4 : InteriorAngleOff(qPoints, i))
        => qValid = "invalid"

\* a parallelogram with angles of 45 and 135 degrees whose opposite sides
\* are equal and whose sides are 1 and sqrt(2): only the angles reject it
C22_Witness ==
    /\ qPoints = <<Pt(0, 0), Pt(1, 0), Pt(2, 1), Pt(1, 1)>>
    /\ InteriorAngleOff(qPoints, 1)
    /\ ~HasUnequalOppositeSides(qPoints)
    /\ qValid = "invalid"

\* C23: in every cycle in which the detector returns none (no contour
\* meets the area floor, the polygon has not 4 vertices, the shape check
\* fails or a detection step throws) the counter of consecutive detections
\* is 0 after the cycle: while no Quad is exposed the counter is 0.
C23_NoneResetsCounter ==
    detectedRect = NoRect => rectDetectionCount = 0

\* the bounding box of the points of a Quad, clamped to the frame
QuadBox(points) ==
    LET xs == {points[i].x : i \in 1..Len(points)}
        ys == {points[i].y : i \in 1..Len(points)}
        least(S)    == CHOOSE v \in S : \A w \in S : v <= w
        greatest(S) == CHOOSE v \in S : \A w \in S : v >= w
    IN  << Max2(0, least(xs)), Max2(0, least(ys)),
           Min2(FrameW, greatest(xs)), Min2(FrameH, greatest(ys)) >>

C25_NoCandidatesAfterReset ==
    ~hasSavedImage => candidates = << >>

\* how often point p occurs in the sequence s
Occurrences(s, p) == Cardinality({i \in 1..Len(s) : s[i] = p})

\* C26: for every quad accepted by checkRectangleShape the result of
\* sortRectanglePoints is a permutation of the four input points: each
\* point occurs as often as in the input, also when vertices tie on x+y or
\* on x-y.
C26_OrderingPermutes ==
    (qValid = "valid" /\ qPasses = 1) =>
        /\ Len(qSorted) = 4
        /\ \A p \in Range(qPoints) \cup Range(qSorted) :
              Occurrences(qSorted, p) = Occurrences(qPoints, p)

C28_OneTickPending ==
    /\ (isCvLoaded /\ mounted) => pendingTicks = 1
    /\ (~isCvLoaded \/ ~mounted) => pendingTicks = 0

\* the loop is running after early returns, a caught error, a capture that
\* restarted it and cycles that draw the saved image
C28_Witness ==
    /\ pendingTicks = 1
    /\ hasSavedImage
    /\ savedImageElement # NoImage
    /\ canvasImage = savedImageElement
    /\ detectedRectImage # NoImage

\* C29: when a tick or an identification call ends, on any exit path, every
\* vision-library object it allocated has been released: no call leaves
\* more objects live than there were before it.
C29_CallsReleaseAll ==
    [][memLive' = memLive]_vars

\* C30: at teardown the whole database is disposed together, and after
\* teardown the database holds no signature, also when reference load
\* tasks were still pending at the moment of teardown.
C30_EmptyAfterTeardown ==
    ~mounted => masterDataMap = << >>


\* the database as it is when the identities settle in the order of the
\* list: cards 1..c with the images that loaded
RECURSIVE ListOrderDatabase(_, _)
ListOrderDatabase(ts, c) ==
    IF c = 0 THEN << >> ELSE cardLoaded(ListOrderDatabase(ts, c - 1), ts, c)

\* C31: for the same capture and the same set of reference images the
\* ranked list does not depend on the order in which the load tasks
\* complete: once every task has settled, a ranking is the one computed on
\* the database that the same tasks fill when they complete in list order.
C31_RankingIgnoresLoadOrder ==
    [][(RankingStep /\ buildPhase = "done" /\ Len(pendingImages) = 1
            /\ candidates' # << >>)
          => candidates' = sortedCandidates(
                               ImageDescriptors(pendingImages[1].content),
                               ListOrderDatabase(taskState, Len(MasterList)))
      ]_vars


\* the distances of the matches of a capture and one reference image, by
\* position of the capture descriptor: the distance to the nearest
\* descriptor of the image
MatchDistance(query, ref, i) ==
    CHOOSE d \in {hammingDistance(query[i], ref[j]) : j \in 1..Len(ref)} :
        \A j \in 1..Len(ref) : d <= hammingDistance(query[i], ref[j])

\* the positions of the capture descriptors that have a match
MatchedPositions(query, ref) == IF Len(ref) = 0 THEN {} ELSE 1..Len(query)

\* the number of matches strictly below max(30, 2 * minDistance), with
\* minDistance the smallest distance among the matches of the pair
StrictlyBelowThreshold(query, ref) ==
    LET pos == MatchedPositions(query, ref)
        isMin(i) == \A k \in pos : MatchDistance(query, ref, i) <= MatchDistance(query, ref, k)
        floorOrTwice(i) ==
            IF 2 * MatchDistance(query, ref, i) > MinThreshold
            THEN 2 * MatchDistance(query, ref, i) ELSE MinThreshold
    IN  IF pos = {} THEN 0
        ELSE LET m == CHOOSE i \in pos : isMin(i)
             IN  Cardinality({i \in pos : MatchDistance(query, ref, i) < floorOrTwice(m)})

C33_NotAnalyzingBetweenCalls == isAnalyzing = FALSE

\* a capture is held, every identification has ended and the last one threw
C33_Witness ==
    /\ hasSavedImage
    /\ pendingImages = << >>
    /\ masterDataMap # << >>
    /\ candidates = << >>
    /\ isAnalyzing = FALSE


\* C34: while the component is mounted a crop is held exactly when the
\* debounce timer is pending, and exactly when the time of the last
\* detection is set; no sequence of cycles, expiry, capture and reset
\* separates the three.
C34_CropTimerStampTogether ==
    mounted =>
        /\ detectedRectImage # NoImage <=> timers # {}
        /\ timers # {} <=> detectionTimeout # NoTime
        /\ detectionTimeout # NoTime <=> lastDetectionTime # NoTime

\* a reset has taken the crop, the timer and the time of the detection
\* before the timer could expire; the count of that detection still stands
C34_Witness ==
    /\ mounted
    /\ rectDetectionCount > 0
    /\ now < DebounceMs
    /\ detectedRectImage = NoImage
    /\ timers = {}
    /\ lastDetectionTime = NoTime


\* C35: when the capture yields no descriptors the identification completes
\* without error and every identity of the database appears in the ranked
\* list, each once and with score 0.
C35_NoDescriptorsAllZero ==
    (hasSavedImage /\ mQuery = << >>) =>
        /\ Len(candidates) = Len(masterDataMap)
        /\ \A k \in 1..Len(candidates) : candidates[k].matchCount = 0
        /\ \A e \in 1..Len(masterDataMap) :
              \E k \in 1..Len(candidates) :
                  candidates[k].cardName = masterDataMap[e].displayName

\* a capture without descriptors ranked against an identity of one image
\* of two descriptors and an identity of two images
C35_Witness ==
    /\ hasSavedImage
    /\ mQuery = << >>
    /\ Len(masterDataMap[1].images[1]) = 2
    /\ Len(candidates) = 2
    /\ candidates[1] = [cardName |-> "A", matchCount |-> 0]
    /\ candidates[2] = [cardName |-> "B", matchCount |-> 0]


\* the largest contour area of the frame of the study, 0 without contours
LargestArea ==
    IF cContours = << >> THEN 0
    ELSE LET i == CHOOSE k \in 1..Len(cContours) :
                      \A j \in 1..Len(cContours) : cContours[k].area >= cContours[j].area
         IN  cContours[i].area

\* the contours whose area is at least max(500, 0.5 * largest area)
MeetingFloor ==
    {k \in 1..Len(cContours) :
        /\ cContours[k].area >= MinAreaFloor
        /\ 2 * cContours[k].area >= LargestArea}

\* C36: the candidate boundary is a contour of maximum area among the
\* contours whose area is at least max(500, 0.5 * largest contour area),
\* and none is selected when no contour meets that floor.
C36_LargestAboveFloor ==
    cLargest # Unselected =>
        IF MeetingFloor = {} THEN cLargest = 0
        ELSE /\ cLargest \in MeetingFloor
             /\ \A k \in MeetingFloor : cContours[cLargest].area >= cContours[k].area

\* the first contour is above 500 and under half the largest, the third
\* meets the floor and is not the largest
C36_Witness ==
    /\ Len(cContours) = 3
    /\ cContours[1].area = 600
    /\ cContours[2].area = 1300
    /\ cContours[3].area = 1000
    /\ cLargest = 2

\* C37: the selected contour is always the first contour of globally
\* largest area, and one is selected exactly when that largest area is at
\* least 500; the factor 0.5 never changes the selection.
C37_GloballyLargestFirst ==
    cLargest # Unselected =>
        IF LargestArea >= MinAreaFloor
        THEN /\ cLargest \in 1..Len(cContours)
             /\ cContours[cLargest].area = LargestArea
             /\ \A k \in 1..(cLargest - 1) : cContours[k].area < LargestArea
        ELSE cLargest = 0

\* a contour that meets the floor comes first, the largest area occurs
\* twice after it
C37_Witness ==
    /\ Len(cContours) = 3
    /\ cContours[1].area = 1000
    /\ cContours[2].area = 1300
    /\ cContours[3].area = 1300
    /\ cLargest = 2


\* C38: whenever a crop is recorded its rectangle is the bounding box of
\* the quad clamped to the frame, with 0 <= minX < maxX <= width and
\* 0 <= minY < maxY <= height; a crop of zero or negative size is never
\* recorded.
C38_CropWithinFrame ==
    /\ [](detectedRectImage # NoImage =>
            LET r == detectedRectImage.rect
            IN  /\ 0 <= r[1] /\ r[1] < r[3] /\ r[3] <= FrameW
                /\ 0 <= r[2] /\ r[2] < r[4] /\ r[4] <= FrameH)
    /\ [][(detectedRectImage' # NoImage /\ detectedRectImage' # detectedRectImage)
            => /\ detectedRect' # NoRect
               /\ detectedRectImage'.rect = QuadBox(detectedRect'.points)
         ]_vars

\* the crop of the quad standing on a corner: its box is narrower than the
\* frame and reaches from its top point to its bottom point
C38_Witness ==
    /\ detectedRect # NoRect
    /\ detectedRectImage # NoImage
    /\ detectedRectImage.rect = <<1, 0, 2, 2>>
    /\ detectedRectImage.rect = QuadBox(detectedRect.points)


\* the capture images without the k-th
WithoutImage(k) ==
    SubSeq(pendingImages, 1, k - 1) \o SubSeq(pendingImages, k + 1, Len(pendingImages))

\* C39: when a step of an identification run throws, the exception stays
\* inside the run and the candidate list exposed becomes empty: on a
\* complete database every identification leaves either the ranking of the
\* image it was given or no candidates at all, raw and exposed, and never
\* the candidates of an earlier run.
C39_FailedRunClearsCandidates ==
    [][IdentificationStep =>
          \E k \in 1..Len(pendingImages) :
              /\ pendingImages' = WithoutImage(k)
              /\ \/ candidates' = << >> /\ exposed' = << >>
                 \/ /\ candidates' = sortedCandidates(
                                         ImageDescriptors(pendingImages[k].content),
                                         masterDataMap)
                    /\ candidates' # << >>
      ]_vars

\* an identity of an earlier ranking was excluded, a later capture is held
\* and its identification has thrown: nothing is exposed
C39_Witness ==
    /\ hasSavedImage
    /\ blacklist # << >>
    /\ pendingImages = << >>
    /\ candidates = << >>
    /\ exposed = << >>

=============================================================================
